---- MODULE Spec2Model ----
(***************************************************************************)
(* focus-ai (src/main.py): the poll loop FocusAI.run, the bounded window   *)
(* history of WindowManager, OpenAIManager.get_response and                *)
(* TTSManager.speak_text, as one sequential state machine.  Each action is *)
(* one statement (or one collaborator call) of the source; the position in *)
(* the code is pc.  The collaborators (pyautogui, OpenAI, Play.ht,         *)
(* PyAudio) are nondeterministic: every call may succeed or raise.         *)
(***************************************************************************)
EXTENDS Integers, Sequences, FiniteSets, TLC

(* ---------------- bounds of the model ---------------- *)

\* number of window titles the poll loop reads in a run
MaxTitles == 6
\* number of audio chunks one synthesis stream yields at most
MaxChunks == 2

(* ---------------- program constants ---------------- *)

\* WindowManager.__init__(max_history=5); FocusAI constructs it with the default
max_history == 5
\* time.sleep(1) at the start of run, time.sleep(0.5) per tick, time.sleep(5)
\* in the handler; in tenths of a second
StartSleep == 10
ShortSleep == 5
LongSleep == 50

(* ---------------- values ---------------- *)

\* Python's None where the code holds an Optional[str] window title
NoValue == "<None>"
\* the sentinel get_current_window returns when there is no active window
Unknown == "Unknown"
\* titles of the windows the OS can report
WindowTitles == {"A", "B"}

\* Optional[str] texts: a str is a sequence of pieces, None is tagged
Str(s) == [isNone |-> FALSE, s |-> s]
None == [isNone |-> TRUE, s |-> <<>>]
\* the hardcoded message of get_response's handler
Fallback == Str(<<"Soldier, we're experiencing technical difficulties. Stay focused!">>)
\* the three leading spaces speak_text puts in front of the text
Prefix == <<"   ">>
\* completion contents the text-generation service can return
Contents == {Str(<<"Move out, soldier!">>), Str(<<>>), None}

(* ---------------- exceptions ---------------- *)

NoExc == "none"

\* does a handler 'except cls' catch an exception of class e ?
\* (every class used here derives from Exception)
Catches(cls, e) == cls = "Exception" \/ cls = e

\* the handler of get_current_window: except AttributeError
WindowHandler == "AttributeError"

\* the handler of get_response, of speak_text and of run: except Exception
BroadHandler == "Exception"

(* ---------------- WindowManager ---------------- *)

\* outcomes of pyautogui.getActiveWindow(): a window with a title, no active
\* window (None, so .title raises AttributeError), or the platform call raising
ReadOutcomes ==
  [kind : {"window"}, title : WindowTitles]
    \cup {[kind |-> "nowindow", title |-> NoValue],
          [kind |-> "platformerror", title |-> NoValue]}

\* the exception raised inside the try of get_current_window
ReadExc(o) ==
  CASE o.kind = "window" -> NoExc
    [] o.kind = "nowindow" -> "AttributeError"
    [] o.kind = "platformerror" -> "NotImplementedError"

\* get_current_window: the title, the sentinel when the handler catches, or
\* the exception propagating to the caller
get_current_window(o) ==
  IF ReadExc(o) = NoExc
    THEN [raised |-> NoExc, title |-> o.title]
    ELSE IF Catches(WindowHandler, ReadExc(o))
      THEN [raised |-> NoExc, title |-> Unknown]
      ELSE [raised |-> ReadExc(o), title |-> NoValue]

\* update_window_list that never evicts
update_window_list_NoEvict(lw, w) == Append(lw, w)

\* update_window_list that evicts with pop() instead of pop(0)
update_window_list_PopLast(lw, w) ==
  LET appended_ == Append(lw, w)
  IN IF Len(appended_) > max_history
       THEN SubSeq(appended_, 1, Len(appended_) - 1)
       ELSE appended_

\* update_window_list that inserts at the front and evicts at the back
update_window_list_Prepend(lw, w) ==
  LET inserted == <<w>> \o lw
  IN IF Len(inserted) > max_history
       THEN SubSeq(inserted, 1, max_history)
       ELSE inserted

\* update_window_list: append, then pop(0) when longer than max_history
update_window_list(lw, w) ==
  LET appended_ == Append(lw, w)
  IN IF Len(appended_) > max_history THEN Tail(appended_) ELSE appended_

(* ---------------- OpenAIManager ---------------- *)

\* outcomes of the chat-completions call: a completion with some content,
\* the call raising, or a malformed response (no choices, no message)
GenOutcomes ==
  [kind : {"ok"}, content : Contents]
    \cup {[kind |-> "raise", content |-> None],
          [kind |-> "nochoices", content |-> None],
          [kind |-> "nomessage", content |-> None]}

\* the outcomes in which text generation failed
GenFailures == {o \in GenOutcomes : o.kind # "ok"}

\* what a tick remembers of the outcome of its text-generation call
GenResult(o) == [kind |-> IF o \in GenFailures THEN "failed" ELSE "ok"]

\* the exception raised inside the try of get_response
GenExc(o) ==
  CASE o.kind = "ok" -> NoExc
    [] o.kind = "raise" -> "APIError"
    [] o.kind = "nochoices" -> "IndexError"
    [] o.kind = "nomessage" -> "AttributeError"

\* get_response whose handler is 'except APIError' instead of 'except Exception'
get_response_NarrowHandler(o) ==
  IF GenExc(o) = NoExc
    THEN [raised |-> NoExc, say |-> o.content]
    ELSE IF Catches("APIError", GenExc(o))
      THEN [raised |-> NoExc, say |-> Fallback]
      ELSE [raised |-> GenExc(o), say |-> None]

\* get_response: {"say": content}, or {"say": fallback} when the handler catches
get_response(o) ==
  IF GenExc(o) = NoExc
    THEN [raised |-> NoExc, say |-> o.content]
    ELSE IF Catches(BroadHandler, GenExc(o))
      THEN [raised |-> NoExc, say |-> Fallback]
      ELSE [raised |-> GenExc(o), say |-> None]

(* ---------------- Config ---------------- *)

\* the three secrets Config reads from the environment
SecretNames == {"OPENAI_API_KEY", "PLAYHT_API_KEY", "PLAYHT_USER_ID"}

\* a variable of the environment (after load_dotenv): absent, empty, or set
EnvValues == {NoValue, "", "secret"}

\* os.getenv(name, '')
getenv(e, name) == IF e[name] = NoValue THEN "" ELSE e[name]

\* the fields of Config after the three os.getenv calls
ConfigFields(e) == [n \in SecretNames |-> getenv(e, n)]

\* a check with any() instead of all()
ConfigComplete_Any(c) == \E n \in SecretNames : c[n] # ""

\* all([self.openai_api_key, self.playht_api_key, self.playht_user_id])
ConfigComplete(c) == \A n \in SecretNames : c[n] # ""

\* the module-level name config before Config() has returned
NoConfig == [n \in SecretNames |-> NoValue]

(* ---------------- state ---------------- *)

VARIABLES
  env,                  \* the process environment
  config,               \* the module-level Config object
  constructed,          \* FocusAI() has built its managers and clients
  pc,                   \* position in the module, FocusAI.run or speak_text
  last_windows,         \* WindowManager.last_windows
  last_focused_window,  \* FocusAI.last_focused_window
  current_window,       \* local of run
  say_text,             \* local of run: response['say']
  text,                 \* local of speak_text: the text after line 130
  ttsArg,               \* the text self.tts.tts was called with
  sinkLog,              \* calls made on the audio stream speak_text opened
  yielded,              \* number of chunks the synthesis stream has yielded
  exc,                  \* the exception that reached a handler of
                        \* speak_text or run in this tick
  lastSleep,            \* duration of the last time.sleep
  readOutcome,          \* what the OS window read did in this tick
  genOutcome,           \* whether the text-generation call of this tick
                        \* gave a completion ("ok") or failed ("failed")
  genHistory,           \* the last_windows argument get_response was given
  changed,              \* result of the change check of this tick
  titles,               \* history: titles read by the ticks so far
  appended,             \* history: titles passed to update_window_list
  notifications,        \* history: number of get_response + speak_text calls
  pipelineRaised,       \* history: some tick raised out of the pipeline
  sleepsSinceRead,      \* history: time.sleep calls since the last window read
  prevSpeakFailed       \* history: in the tick before this one speak_text
                        \* caught a synthesis or playback error

vars == <<env, config, constructed, pc, last_windows, last_focused_window, current_window, say_text,
          text, ttsArg, sinkLog, yielded, exc, lastSleep, readOutcome, genOutcome,
          genHistory, changed, titles, appended, notifications,
          pipelineRaised, sleepsSinceRead, prevSpeakFailed>>

locals == <<current_window, say_text, text, ttsArg, sinkLog, yielded, exc,
            readOutcome, genOutcome, genHistory, changed>>
hist == <<titles, appended, notifications, pipelineRaised>>
startup == <<env, config, constructed>>
tickHist == <<sleepsSinceRead, prevSpeakFailed>>
speakFrame == <<text, ttsArg, sinkLog, yielded>>
runLocals == <<current_window, say_text, exc, readOutcome, genOutcome,
               genHistory, changed>>

\* speak_text has returned and its frame (text, audio_stream, the stream of
\* chunks) is gone
DropSpeakFrame ==
  /\ text' = None
  /\ ttsArg' = None
  /\ sinkLog' = <<>>
  /\ yielded' = 0

NoOutcome == [kind |-> "none"]

\* the locals of a tick before the tick has run
ResetLocals ==
  /\ current_window' = NoValue
  /\ say_text' = None
  /\ text' = None
  /\ ttsArg' = None
  /\ sinkLog' = <<>>
  /\ yielded' = 0
  /\ exc' = NoExc
  /\ readOutcome' = NoOutcome
  /\ genOutcome' = NoOutcome
  /\ genHistory' = <<>>
  /\ changed' = FALSE

Init ==
  /\ env \in [SecretNames -> EnvValues]
  /\ config = NoConfig
  /\ constructed = FALSE
  /\ pc = "config"
  /\ last_windows = <<>>
  /\ last_focused_window = NoValue
  /\ current_window = NoValue
  /\ say_text = None
  /\ text = None
  /\ ttsArg = None
  /\ sinkLog = <<>>
  /\ yielded = 0
  /\ exc = NoExc
  /\ lastSleep = 0
  /\ readOutcome = NoOutcome
  /\ genOutcome = NoOutcome
  /\ genHistory = <<>>
  /\ changed = FALSE
  /\ titles = <<>>
  /\ appended = <<>>
  /\ notifications = 0
  /\ pipelineRaised = FALSE
  /\ sleepsSinceRead = 0
  /\ prevSpeakFailed = FALSE

(* ---------------- module level ---------------- *)

\* config = Config(): the ValueError is not caught and ends the process
LoadConfig ==
  /\ pc = "config"
  /\ UNCHANGED tickHist
  /\ IF ConfigComplete(ConfigFields(env))
       THEN /\ config' = ConfigFields(env)
            /\ pc' = "main"
       ELSE /\ config' = config
            /\ pc' = "exit"
  /\ UNCHANGED <<env, constructed, last_windows, last_focused_window, locals,
                 lastSleep, hist>>

\* focus_ai = FocusAI(): WindowManager, OpenAIManager and TTSManager are built
Construct ==
  /\ pc = "main"
  /\ UNCHANGED tickHist
  /\ constructed' = TRUE
  /\ pc' = "start"
  /\ UNCHANGED <<env, config, last_windows, last_focused_window, locals,
                 lastSleep, hist>>

(* ---------------- FocusAI.run ---------------- *)

\* run whose handler is 'except AttributeError' instead of 'except Exception'
RunRaise_NarrowHandler(e) ==
  IF Catches("AttributeError", e) THEN "except" ELSE "crashed"

\* where an exception raised inside the try of run's loop goes
RunRaise(e) == IF Catches(BroadHandler, e) THEN "except" ELSE "crashed"

\* run, before the loop: time.sleep(1)
Start ==
  /\ pc = "start"
  /\ UNCHANGED startup
  /\ lastSleep' = StartSleep
  /\ sleepsSinceRead' = sleepsSinceRead + 1
  /\ UNCHANGED prevSpeakFailed
  /\ pc' = "read"
  /\ UNCHANGED <<last_windows, last_focused_window, locals, hist>>

\* current_window = self.window_manager.get_current_window()
ReadWindow ==
  /\ pc = "read"
  /\ UNCHANGED genHistory
  /\ UNCHANGED startup
  /\ Len(titles) < MaxTitles
  /\ sleepsSinceRead' = 0
  /\ UNCHANGED prevSpeakFailed
  /\ \E o \in ReadOutcomes :
       LET r == get_current_window(o)
       IN /\ readOutcome' = o
          /\ IF r.raised = NoExc
               THEN /\ current_window' = r.title
                    /\ titles' = Append(titles, r.title)
                    /\ pc' = "check"
                    /\ exc' = exc
               ELSE /\ exc' = r.raised
                    /\ pc' = RunRaise(r.raised)
                    /\ UNCHANGED <<current_window, titles>>
  /\ UNCHANGED <<last_windows, last_focused_window, say_text, text, ttsArg,
                 sinkLog, yielded, lastSleep, genOutcome, changed, appended,
                 notifications, pipelineRaised>>

\* a change check that fires on every tick
IsChange_Always(cur, last) == TRUE

\* the change check of run
IsChange(cur, last) == cur # last

\* if current_window != self.last_focused_window:
CheckChange ==
  /\ pc = "check"
  /\ UNCHANGED genHistory
  /\ UNCHANGED tickHist
  /\ UNCHANGED startup
  /\ changed' = IsChange(current_window, last_focused_window)
  /\ pc' = IF changed' THEN "update" ELSE "sleep"
  /\ UNCHANGED <<last_windows, last_focused_window, current_window, say_text,
                 text, ttsArg, sinkLog, yielded, exc, lastSleep, readOutcome,
                 genOutcome, hist>>

\* self.window_manager.update_window_list(current_window)
UpdateWindowList ==
  /\ pc = "update"
  /\ UNCHANGED tickHist
  /\ UNCHANGED startup
  /\ last_windows' = update_window_list(last_windows, current_window)
  /\ appended' = Append(appended, current_window)
  /\ pc' = "generate"
  /\ UNCHANGED <<last_focused_window, locals, lastSleep, titles,
                 notifications, pipelineRaised>>

\* response = self.openai_manager.get_response(...); say_text = response['say']
Generate ==
  /\ pc = "generate"
  /\ UNCHANGED tickHist
  /\ UNCHANGED startup
  /\ \E o \in GenOutcomes :
       LET r == get_response(o)
       IN /\ genOutcome' = GenResult(o)
          /\ genHistory' = last_windows
          /\ IF r.raised = NoExc
               THEN /\ say_text' = r.say
                    /\ pc' = "speak"
                    /\ UNCHANGED <<exc, pipelineRaised>>
               ELSE /\ exc' = r.raised
                    /\ pc' = RunRaise(r.raised)
                    /\ pipelineRaised' = TRUE
                    /\ UNCHANGED say_text
  /\ UNCHANGED <<last_windows, last_focused_window, current_window, text,
                 ttsArg, sinkLog, yielded, lastSleep, readOutcome, changed, titles,
                 appended, notifications>>

(* ---------------- TTSManager.speak_text ---------------- *)

\* calls on the audio stream, as recorded in sinkLog
SinkOpen == [op |-> "open", chunk |-> 0]
SinkWrite(i) == [op |-> "write", chunk |-> i]
SinkStop == [op |-> "stop_stream", chunk |-> 0]
SinkClose == [op |-> "close", chunk |-> 0]

\* where an exception raised inside the try of speak_text goes: the handler
\* logs it and speak_text returns to run
SpeakRaise(e) == IF Catches(BroadHandler, e) THEN "assign" ELSE RunRaise(e)

\* an exception e is raised inside the try of speak_text
RaiseInSpeak(e) ==
  /\ exc' = e
  /\ pc' = SpeakRaise(e)
  /\ pipelineRaised' = (pipelineRaised \/ SpeakRaise(e) # "assign")

\* self.tts_manager.speak_text(say_text), up to the try: text = "   " + text
\* raises TypeError when text is None, outside the try of speak_text
SpeakText ==
  /\ pc = "speak"
  /\ UNCHANGED genHistory
  /\ UNCHANGED tickHist
  /\ UNCHANGED startup
  /\ notifications' = notifications + 1
  /\ IF say_text.isNone
       THEN /\ exc' = "TypeError"
            /\ pc' = RunRaise("TypeError")
            /\ pipelineRaised' = TRUE
            /\ text' = text
       ELSE /\ text' = Str(Prefix \o say_text.s)
            /\ pc' = "open"
            /\ UNCHANGED <<exc, pipelineRaised>>
  /\ UNCHANGED <<last_windows, last_focused_window, current_window, say_text,
                 ttsArg, sinkLog, yielded, lastSleep, readOutcome, genOutcome,
                 changed, titles, appended>>

\* audio_stream = self.p.open(...)
OpenSink ==
  /\ pc = "open"
  /\ UNCHANGED genHistory
  /\ UNCHANGED tickHist
  /\ UNCHANGED startup
  /\ \/ /\ sinkLog' = Append(sinkLog, SinkOpen)
        /\ pc' = "tts"
        /\ UNCHANGED <<exc, pipelineRaised>>
     \/ /\ RaiseInSpeak("OSError")
        /\ UNCHANGED sinkLog
  /\ UNCHANGED <<last_windows, last_focused_window, current_window, say_text,
                 text, ttsArg, yielded, lastSleep, readOutcome, genOutcome,
                 changed, titles, appended, notifications>>

\* self.tts.tts(text, options): the stream the for loop iterates
CallTTS ==
  /\ pc = "tts"
  /\ UNCHANGED genHistory
  /\ UNCHANGED tickHist
  /\ UNCHANGED startup
  /\ ttsArg' = text
  /\ pc' = "next"
  /\ UNCHANGED <<last_windows, last_focused_window, current_window, say_text,
                 text, sinkLog, yielded, exc, lastSleep, readOutcome,
                 genOutcome, changed, hist>>

\* for chunk in ...: the stream yields its next chunk, ends, or raises
NextChunk ==
  /\ pc = "next"
  /\ UNCHANGED genHistory
  /\ UNCHANGED tickHist
  /\ UNCHANGED startup
  /\ \/ /\ yielded < MaxChunks
        /\ yielded' = yielded + 1
        /\ pc' = "write"
        /\ UNCHANGED <<exc, pipelineRaised>>
     \/ /\ pc' = "stop"
        /\ UNCHANGED <<yielded, exc, pipelineRaised>>
     \/ /\ RaiseInSpeak("TTSError")
        /\ UNCHANGED yielded
  /\ UNCHANGED <<last_windows, last_focused_window, current_window, say_text,
                 text, ttsArg, sinkLog, lastSleep, readOutcome, genOutcome,
                 changed, titles, appended, notifications>>

\* a loop body that drops the chunk instead of writing it
WriteChunk_Drop ==
  /\ pc = "write"
  /\ UNCHANGED tickHist
  /\ UNCHANGED startup
  /\ pc' = "next"
  /\ UNCHANGED <<last_windows, last_focused_window, locals, lastSleep, hist>>

\* audio_stream.write(chunk)
WriteChunk ==
  /\ pc = "write"
  /\ UNCHANGED genHistory
  /\ UNCHANGED tickHist
  /\ UNCHANGED startup
  /\ \/ /\ sinkLog' = Append(sinkLog, SinkWrite(yielded))
        /\ pc' = "next"
        /\ UNCHANGED <<exc, pipelineRaised>>
     \/ /\ RaiseInSpeak("IOError")
        /\ UNCHANGED sinkLog
  /\ UNCHANGED <<last_windows, last_focused_window, current_window, say_text,
                 text, ttsArg, yielded, lastSleep, readOutcome, genOutcome,
                 changed, titles, appended, notifications>>

\* audio_stream.stop_stream()
StopSink ==
  /\ pc = "stop"
  /\ UNCHANGED genHistory
  /\ UNCHANGED tickHist
  /\ UNCHANGED startup
  /\ \/ /\ sinkLog' = Append(sinkLog, SinkStop)
        /\ pc' = "close"
        /\ UNCHANGED <<exc, pipelineRaised>>
     \/ /\ RaiseInSpeak("IOError")
        /\ UNCHANGED sinkLog
  /\ UNCHANGED <<last_windows, last_focused_window, current_window, say_text,
                 text, ttsArg, yielded, lastSleep, readOutcome, genOutcome,
                 changed, titles, appended, notifications>>

\* audio_stream.close(); speak_text returns
CloseSink ==
  /\ pc = "close"
  /\ UNCHANGED genHistory
  /\ UNCHANGED tickHist
  /\ UNCHANGED startup
  /\ \/ /\ sinkLog' = Append(sinkLog, SinkClose)
        /\ pc' = "assign"
        /\ UNCHANGED <<exc, pipelineRaised>>
     \/ /\ RaiseInSpeak("IOError")
        /\ UNCHANGED sinkLog
  /\ UNCHANGED <<last_windows, last_focused_window, current_window, say_text,
                 text, ttsArg, yielded, lastSleep, readOutcome, genOutcome,
                 changed, titles, appended, notifications>>

(* ---------------- FocusAI.run, after the pipeline ---------------- *)

\* an assignment made only when speak_text met no error
AssignLastFocused_OnlyOnSuccess ==
  /\ pc = "assign"
  /\ last_focused_window' =
       IF exc = NoExc THEN current_window ELSE last_focused_window
  /\ pc' = "sleep"
  /\ DropSpeakFrame
  /\ UNCHANGED <<startup, tickHist, last_windows, runLocals, lastSleep, hist>>

\* self.last_focused_window = current_window, the statement after the call
\* of speak_text: at pc = "assign" speak_text has just returned
AssignLastFocused ==
  /\ pc = "assign"
  /\ UNCHANGED tickHist
  /\ UNCHANGED startup
  /\ last_focused_window' = current_window
  /\ pc' = "sleep"
  /\ DropSpeakFrame
  /\ UNCHANGED <<last_windows, runLocals, lastSleep, hist>>

\* time.sleep(0.5); the tick is over
SleepShort ==
  /\ pc = "sleep"
  /\ UNCHANGED startup
  /\ lastSleep' = ShortSleep
  /\ sleepsSinceRead' = sleepsSinceRead + 1
  /\ prevSpeakFailed' = (changed /\ exc # NoExc)
  /\ pc' = "read"
  /\ ResetLocals
  /\ UNCHANGED <<last_windows, last_focused_window, hist>>

\* except Exception as e: logger.error(...)
HandleException ==
  /\ pc = "except"
  /\ UNCHANGED tickHist
  /\ UNCHANGED startup
  /\ pc' = "backoff"
  /\ UNCHANGED <<last_windows, last_focused_window, locals, lastSleep, hist>>

\* a handler that goes back to the loop head without sleeping
SleepLong_NoSleep ==
  /\ pc = "backoff"
  /\ pc' = "read"
  /\ ResetLocals
  /\ UNCHANGED <<startup, tickHist, last_windows, last_focused_window,
                 lastSleep, hist>>

\* time.sleep(5); the tick is over
SleepLong ==
  /\ pc = "backoff"
  /\ UNCHANGED startup
  /\ lastSleep' = LongSleep
  /\ sleepsSinceRead' = sleepsSinceRead + 1
  /\ prevSpeakFailed' = FALSE
  /\ pc' = "read"
  /\ ResetLocals
  /\ UNCHANGED <<last_windows, last_focused_window, hist>>

Next ==
  \/ LoadConfig
  \/ Construct
  \/ Start
  \/ ReadWindow
  \/ CheckChange
  \/ UpdateWindowList
  \/ Generate
  \/ SpeakText
  \/ OpenSink
  \/ CallTTS
  \/ NextChunk
  \/ WriteChunk
  \/ StopSink
  \/ CloseSink
  \/ AssignLastFocused
  \/ SleepShort
  \/ HandleException
  \/ SleepLong

Spec == Init /\ [][Next]_vars

(* ---------------- operators of the properties ---------------- *)

Min(a, b) == IF a < b THEN a ELSE b

\* the last n elements of s (all of s when it is shorter)
LastN(s, n) == SubSeq(s, Len(s) - Min(n, Len(s)) + 1, Len(s))

\* positions at which a maximal run of equal consecutive elements starts
RunStarts(s) == {i \in 1..Len(s) : i = 1 \/ s[i] # s[i - 1]}

\* the first elements of the maximal runs of s, in order
RECURSIVE RunHeads(_)
RunHeads(s) ==
  IF Len(s) = 0 THEN <<>>
  ELSE LET front == RunHeads(SubSeq(s, 1, Len(s) - 1))
       IN IF Len(s) \in RunStarts(s) THEN Append(front, s[Len(s)]) ELSE front

\* the calls a sink sees when n chunks are played without error
ExpectedSinkLog(n) ==
  <<SinkOpen>> \o [i \in 1..n |-> SinkWrite(i)] \o <<SinkStop, SinkClose>>

IsPrefix(s, t) == Len(s) <= Len(t) /\ s = SubSeq(t, 1, Len(s))

\* the tick has read a title and made its change check
Checked == current_window # NoValue /\ pc \notin {"start", "read", "check"}

\* the positions inside speak_text's try
InSpeakTry == {"open", "tts", "next", "write", "stop", "close"}

(* ---------------- C1 ---------------- *)

\* C1: at a tick boundary of a run in which no tick raised out of the
\* pipeline, the number of notifications equals the number of maximal runs of
\* equal consecutive titles read, and last_windows is the last
\* min(max_history, runs) run heads in order.
C1_NotificationsPerRun ==
  (pc = "read" /\ ~pipelineRaised) =>
    /\ notifications = Cardinality(RunStarts(titles))
    /\ last_windows = LastN(RunHeads(titles), max_history)

\* the titles A,A,B,B,A gave 3 notifications and the history A,B,A
C1_Witness ==
  /\ pc = "read"
  /\ ~pipelineRaised
  /\ titles = <<"A", "A", "B", "B", "A">>
  /\ notifications = 3
  /\ last_windows = <<"A", "B", "A">>

(* ---------------- C2 ---------------- *)

\* C2: the change check reports a change on the first tick, no change on the
\* immediately following tick that reads the same title, and a change when
\* the title differs from the one read just before.
C2_ChangeCheck ==
  Checked =>
    LET n == Len(titles)
    IN /\ (n = 1 => changed)
       /\ (n >= 2 /\ titles[n] = titles[n - 1] => ~changed)
       /\ (n >= 2 /\ titles[n] # titles[n - 1] => changed)

(* ---------------- C3 ---------------- *)

\* C3: last_focused_window is set before the history update and the external
\* calls, so a tick that reads the same title as the tick before it never
\* appends the title again nor runs the pipeline again, even when the tick
\* before failed.
C3_NoReprocessAfterFailure ==
  LET n == Len(titles)
  IN (Checked /\ n >= 2 /\ titles[n] = titles[n - 1]) =>
       pc \notin ({"generate", "speak", "assign"} \cup InSpeakTry)

(* ---------------- C4 ---------------- *)

\* C4: len(last_windows) never exceeds max_history, and after k appends it
\* equals min(max_history, k).
C4_HistoryLength ==
  /\ Len(last_windows) <= max_history
  /\ Len(last_windows) = Min(max_history, Len(appended))

\* more titles were appended than the history holds
C4_Witness == Len(appended) > max_history /\ Len(last_windows) = max_history

(* ---------------- C5 ---------------- *)

\* C5: the history is the last min(max_history, k) appended titles in
\* arrival order: appends go to the end, evictions take the oldest entry.
C5_HistoryIsLastAppended == last_windows = LastN(appended, max_history)

\* the oldest appended title has been evicted and the newest is at the end
C5_Witness ==
  /\ Len(appended) > max_history
  /\ last_windows[1] # appended[1]
  /\ last_windows[Len(last_windows)] = appended[Len(appended)]

(* ---------------- C6 ---------------- *)

\* C6: in a tick whose text generation failed, get_response has returned the
\* fallback without raising (the tick is not in the error handler), speak_text
\* is called with it, and the text given to synthesis is the prefixed fallback.
C6_FallbackOnGenerationFailure ==
  genOutcome.kind = "failed" =>
    /\ say_text = Fallback
    /\ pc \in ({"speak", "assign", "sleep"} \cup InSpeakTry)
    /\ (pc \in ({"assign"} \cup InSpeakTry) => text = Str(Prefix \o Fallback.s))
    /\ (~ttsArg.isNone => ttsArg = Str(Prefix \o Fallback.s))

\* generation failed and synthesis was called with the prefixed fallback
C6_Witness ==
  /\ genOutcome.kind = "failed"
  /\ ttsArg = Str(Prefix \o Fallback.s)

(* ---------------- C7 ---------------- *)

\* C7: while speak_text has met no error, the calls on the sink are a prefix
\* of open, write(b1), ..., write(bn), stop_stream, close for the n chunks
\* yielded so far, and all of it once speak_text has returned.
C7_ChunksInOrderThenClose ==
  (exc = NoExc /\ pc \in ({"assign"} \cup InSpeakTry)) =>
    /\ IsPrefix(sinkLog, ExpectedSinkLog(yielded))
    /\ (pc = "assign" => sinkLog = ExpectedSinkLog(yielded))

\* two chunks were written in order and the sink closed
C7_Witness ==
  /\ pc = "assign"
  /\ exc = NoExc
  /\ yielded >= 2
  /\ sinkLog = ExpectedSinkLog(yielded)

(* ---------------- C8 ---------------- *)

\* C8: when speak_text has returned, a sink it opened is closed.
C8_SinkReleasedOnReturn ==
  pc = "assign" => (sinkLog = <<>> \/ sinkLog[Len(sinkLog)] = SinkClose)

(* ---------------- C9 ---------------- *)

\* C9: the loop never leaves on an exception: every exception raised in a
\* tick reaches run's handler, the handler is followed by the long sleep, and
\* the long sleep by the next window read.
C9_LoopSurvivesErrors ==
  [][/\ pc' # "crashed"
     /\ (exc' # NoExc /\ exc = NoExc => pc' \in {"except", "assign"})
     /\ (pc = "except" => pc' = "backoff")
     /\ (pc = "backoff" => pc' = "read" /\ lastSleep' = LongSleep)]_vars

\* a tick raised out of the pipeline and the loop is back at the window read
C9_Witness == pc = "read" /\ lastSleep = LongSleep /\ pipelineRaised

(* ---------------- C10 ---------------- *)

\* C10: when the OS window read fails, the tick goes on with "Unknown" as its
\* title and the read has raised nothing to run's handler.
C10_SentinelOnReadFailure ==
  readOutcome.kind \in {"nowindow", "platformerror"} =>
    /\ current_window = Unknown
    /\ exc # ReadExc(readOutcome)

(* ---------------- C11 ---------------- *)

\* C11: once Config() has run, the process has exited exactly when one of
\* the three secrets is absent or empty, and then nothing was constructed and
\* the loop has made no tick.
C11_StartupFailsIffSecretMissing ==
  LET missing == \E n \in SecretNames : env[n] \in {NoValue, ""}
  IN pc # "config" =>
       /\ (pc = "exit" <=> missing)
       /\ (pc = "exit" =>
             /\ ~constructed
             /\ config = NoConfig
             /\ titles = <<>>
             /\ lastSleep = 0
             /\ readOutcome = NoOutcome)

\* startup failed with two secrets set and one absent or empty
C11_Witness ==
  /\ pc = "exit"
  /\ Cardinality({n \in SecretNames : env[n] = "secret"}) = 2

(* ---------------- C12 ---------------- *)

\* C12: a tick that has called get_response is in a stage of the pipeline or
\* has returned normally from it to the loop: it is never in run's handler.
C12_PipelineReturnsNormally ==
  genOutcome # NoOutcome =>
    pc \in ({"speak", "assign", "sleep"} \cup InSpeakTry)

(* ---------------- C13 ---------------- *)

\* C13: a change tick in which speak_text caught a synthesis or playback
\* error ends with last_focused_window equal to its title, and the next tick,
\* when it reads the same title, reports no change and makes no generation
\* call, no speech call and no history append.
C13_NoRetryAfterSpeechFailure ==
  LET n == Len(titles)
  IN /\ (pc = "sleep" /\ changed /\ exc # NoExc =>
            last_focused_window = current_window)
     /\ (prevSpeakFailed /\ Checked /\ n >= 2 /\ titles[n] = titles[n - 1] =>
            /\ ~changed
            /\ pc = "sleep"
            /\ genOutcome = NoOutcome
            /\ say_text = None
            /\ text = None
            /\ ttsArg = None
            /\ sinkLog = <<>>)

\* the tick after a failed speech read the same title and is about to sleep
C13_Witness ==
  /\ prevSpeakFailed
  /\ Checked
  /\ Len(titles) >= 2
  /\ titles[Len(titles)] = titles[Len(titles) - 1]
  /\ pc = "sleep"
  /\ Len(appended) = 1

(* ---------------- C14 ---------------- *)

\* C14: last_windows never holds two adjacent equal titles.
C14_NoAdjacentDuplicates ==
  \A i \in 1..(Len(last_windows) - 1) : last_windows[i] # last_windows[i + 1]

(* ---------------- C15 ---------------- *)

\* C15: a tick whose title equals last_focused_window goes from the check to
\* the sleep and to the next read with last_windows and last_focused_window
\* unchanged and without a generation call, a speech call or a sink; the
\* history update is entered only on a change.
C15_NoChangeNoWork ==
  [][/\ (pc = "check" /\ current_window = last_focused_window =>
           /\ pc' = "sleep"
           /\ ~changed'
           /\ UNCHANGED <<last_windows, last_focused_window, appended,
                          notifications>>)
     /\ (pc = "sleep" /\ ~changed =>
           /\ pc' = "read"
           /\ genOutcome = NoOutcome
           /\ say_text = None
           /\ text = None
           /\ ttsArg = None
           /\ sinkLog = <<>>
           /\ UNCHANGED <<last_windows, last_focused_window, appended,
                          notifications>>)
     /\ (pc' = "update" => current_window # last_focused_window)]_vars

\* a tick read the title of the tick before it and did nothing
C15_Witness ==
  /\ pc = "sleep"
  /\ ~changed
  /\ current_window = last_focused_window
  /\ last_windows # <<>>

(* ---------------- C16 ---------------- *)

\* C16: exactly one sleep lies between two window reads: the short one when
\* the tick ended normally (from the check or after the assignment), the long
\* one when the tick raised into run's handler.
C16_OneSleepPerTick ==
  [][/\ (pc = "read" => sleepsSinceRead = 1)
     /\ (pc' = "read" => sleepsSinceRead' = 1)
     /\ (pc = "sleep" => pc' = "read" /\ lastSleep' = ShortSleep)
     /\ (pc = "backoff" => pc' = "read" /\ lastSleep' = LongSleep)
     /\ (pc' = "sleep" => pc \in {"check", "assign"})
     /\ (pc' = "backoff" => pc = "except")
     /\ (pc' = "except" => exc' # NoExc /\ pc \in {"read", "speak"})
     /\ (lastSleep' # lastSleep => pc \in {"start", "sleep", "backoff"})]_vars

\* a tick with a notification ended in the short sleep
C16_Witness ==
  /\ pc = "read"
  /\ sleepsSinceRead = 1
  /\ lastSleep = ShortSleep
  /\ notifications >= 1

(* ---------------- C17 ---------------- *)

\* C17: at every tick boundary last_focused_window is None exactly when
\* last_windows is empty, and otherwise equals its last element.
C17_LastFocusedIsLastOfHistory ==
  pc = "read" =>
    /\ (last_focused_window = NoValue <=> last_windows = <<>>)
    /\ (last_windows # <<>> =>
          last_windows[Len(last_windows)] = last_focused_window)

(* ---------------- C18 ---------------- *)

\* C18: the history get_response is given ends with the current title, has
\* between 1 and max_history entries, and before its last entry holds the
\* titles appended before, in arrival order.
C18_HistoryArgumentIncludesCurrent ==
  genOutcome # NoOutcome =>
    LET k == Len(genHistory)
        earlier == SubSeq(appended, 1, Len(appended) - 1)
    IN /\ k \in 1..max_history
       /\ genHistory[k] = current_window
       /\ SubSeq(genHistory, 1, k - 1) = LastN(earlier, k - 1)

\* get_response was given a full history after an eviction
C18_Witness ==
  /\ genOutcome # NoOutcome
  /\ Len(genHistory) = max_history
  /\ Len(appended) > max_history

====
